---- MODULE Spec2Model ----
(***************************************************************************)
(* Model of plugins/modules/cargo.py: one invocation of the cargo module.  *)
(* The invocation reads the persisted installation record (.crates2.json), *)
(* decides which named packages need an install or uninstall, runs (or in  *)
(* check mode projects) the action, diffs the two inventories and reports. *)
(*                                                                         *)
(* Python values are tagged so that values of different Python types can   *)
(* be compared:  Str(s), List(q), Bool(b), None; a dict is a function from *)
(* its keys (strings) to values.                                           *)
(***************************************************************************)
EXTENDS Naturals, Sequences, FiniteSets, TLC

VARIABLES
    pc,                      \* position of main(): read, dispatch, report, done, failed, crashed
    params,                  \* module.params (the DesiredSpec), module.check_mode, module._diff
    crates,                  \* .crates2.json "installs" with the stat of the installed binaries
    installed_packages,      \* main: installed_packages
    new_installed_packages,  \* main: new_installed_packages
    to_install,              \* main: to_install / to_uninstall (the target list of the action)
    latest_cache,            \* Cargo._latest
    exec_log,                \* commands handed to Cargo._exec / module.run_command
    diff,                    \* main: diff, as returned by _diff_installed_packages
    result,                  \* the result passed to module.exit_json
    error                    \* fail_json message or the uncaught exception

vars == <<pc, params, crates, installed_packages, new_installed_packages,
          to_install, latest_cache, exec_log, diff, result, error>>

-----------------------------------------------------------------------------
(* Bounds *)

MaxNames == 2        \* longest `name` list of an invocation
MaxBinStat == 1      \* distinct stat values of an installed binary: 0..MaxBinStat

Names == {"a", "b"}
Versions == {"1.0.0", "2.0.0"}
FeatureLists == {<<>>, <<"f">>}
GitUrl == "https://h/r"
Oid == "abc123"
SrcDir == "/src"

-----------------------------------------------------------------------------
(* Python values *)

None == [none |-> TRUE]
Str(s) == [str |-> s]
List(q) == [list |-> q]
Bool(b) == [bool |-> b]
EmptyDict == [k \in {} |-> None]

\* bool(v)
Truthy(v) ==
    IF "none" \in DOMAIN v THEN FALSE
    ELSE IF "str" \in DOMAIN v THEN v.str # ""
    ELSE IF "list" \in DOMAIN v THEN Len(v.list) > 0
    ELSE IF "bool" \in DOMAIN v THEN v.bool
    ELSE DOMAIN v # {}

\* a | b on dicts: the keys of b override those of a
DictOr(a, b) == b @@ a

\* d.get(k, default)
DictGet(d, k, default) == IF k \in DOMAIN d THEN d[k] ELSE default

\* d.pop(k, None) for its effect on d
DictPop(d, k) == [x \in DOMAIN d \ {k} |-> d[x]]

Range(q) == {q[i] : i \in DOMAIN q}

RECURSIVE SeqsUpTo(_, _)
SeqsUpTo(S, n) ==
    IF n = 0 THEN {<<>>}
    ELSE LET shorter == SeqsUpTo(S, n - 1)
         IN  shorter \cup {Append(q, x) : q \in {r \in shorter : Len(r) = n - 1}, x \in S}

-----------------------------------------------------------------------------
(* The persisted installation record *)

\* the url of a package id: "<base>?<query>#<fragment>"
Url(base, query, fragment) == [base |-> base, query |-> query, fragment |-> fragment]

Registry == [kind |-> "registry", url |-> Url("https://crates.io", {}, "")]
GitBranch == [kind |-> "git", url |-> Url(GitUrl, {<<"branch", "main">>}, Oid)]
GitRev == [kind |-> "git", url |-> Url(GitUrl, {}, Oid)]
Path == [kind |-> "path", url |-> Url(SrcDir, {}, "")]

\* one entry of "installs": the fields of the package id, the metadata and
\* the stat of the binaries found under $CARGO_HOME/bin
RawEntry(v, s, ndf, f) ==
    [version |-> v, kind |-> s.kind, url |-> s.url, no_default_features |-> ndf,
     features |-> f, bin_stats |-> 0]

\* the shapes in which each package may be found installed
RawEntriesOf(n) ==
    IF n = "a"
    THEN { RawEntry(v, Registry, ndf, f) : v \in Versions, ndf \in BOOLEAN, f \in FeatureLists }
         \cup { RawEntry(v, GitBranch, ndf, <<>>) : v \in Versions, ndf \in BOOLEAN }
         \cup { RawEntry("1.0.0", GitRev, FALSE, <<>>), RawEntry("1.0.0", Path, FALSE, <<>>) }
    ELSE { RawEntry("1.0.0", Registry, FALSE, <<>>) }

RawEntries == UNION { RawEntriesOf(n) : n \in Names }

CratesFiles ==
    UNION { {c \in [S -> RawEntries] : \A n \in S : c[n] \in RawEntriesOf(n)} : S \in SUBSET Names }

-----------------------------------------------------------------------------
(* Cargo.get_installed *)

\* urllib.parse.parse_qs: every value is the list of the values of its key
parse_qs(query) ==
    [k \in {p[1] : p \in query} |-> List(<<Str((CHOOSE p \in query : p[1] = k)[2])>>)]

\* git_meta: the query parameters, then "rev" from the fragment
git_meta(url) ==
    LET query == parse_qs(url.query)
    IN  IF url.fragment # "" THEN ("rev" :> Str(url.fragment)) @@ query ELSE query

\* pkg_parts after pkg_parts.update(meta)
pkg_parts(name, raw) ==
    LET ident == [name |-> Str(name), version |-> Str(raw.version),
                  kind |-> Str(raw.kind), url |-> raw.url]
        source == IF raw.kind = "path" /\ raw.url.base # "" THEN ("directory" :> Str(raw.url.base))
                  ELSE IF raw.kind = "git" THEN ("git" :> git_meta(raw.url))
                  ELSE EmptyDict
        meta == [features |-> List(raw.features),
                 default_features |-> Bool(~raw.no_default_features),
                 bin_stats |-> raw.bin_stats]
    IN  DictOr(DictOr(ident, source), meta)

\* the entries the loop does not skip
ReadNames(names, c) == {n \in DOMAIN c : Len(names) = 0 \/ n \in Range(names)}

\* fail_json("unexpected git package identifier")
get_installed_fails(names, c) ==
    \E n \in ReadNames(names, c) : c[n].kind = "git" /\ git_meta(c[n].url) = EmptyDict

get_installed(names, c) == [n \in ReadNames(names, c) |-> pkg_parts(n, c[n])]

-----------------------------------------------------------------------------
(* module.params *)

GitParam(tag, branch, rev) ==
    [url |-> Str(GitUrl), tag |-> tag, branch |-> branch, rev |-> rev]

GitParams ==
    { GitParam(None, Str("main"), None), GitParam(Str("v1"), None, None),
      GitParam(None, None, Str(Oid)) }

\* mutually_exclusive=[("version", "git", "directory")]
SourcePins ==
    { [version |-> None, git |-> None, directory |-> None] }
    \cup { [version |-> Str(v), git |-> None, directory |-> None] : v \in Versions }
    \cup { [version |-> None, git |-> g, directory |-> None] : g \in GitParams }
    \cup { [version |-> None, git |-> None, directory |-> Str(SrcDir)] }

ArgvParams == {None, List(<<Str("--offline")>>)}

ModuleParams ==
    { [name |-> names, state |-> st, version |-> pin.version, git |-> pin.git,
       directory |-> pin.directory, features |-> List(f), default_features |-> Bool(df),
       argv |-> argv, check_mode |-> cm, diff_mode |-> dm] :
         names \in SeqsUpTo(Names, MaxNames), st \in {"present", "latest", "absent"},
         pin \in SourcePins, f \in FeatureLists, df \in BOOLEAN,
         argv \in ArgvParams, cm \in BOOLEAN, dm \in BOOLEAN }

-----------------------------------------------------------------------------
(* Cargo._exec, Cargo.install, Cargo.uninstall *)

\* _exec without the check-mode gate
exec_runs_ungated(check_mode, run_in_check_mode) == TRUE

\* whether _exec hands the command to module.run_command
exec_runs(check_mode, run_in_check_mode) ==
    ~check_mode \/ (check_mode /\ run_in_check_mode)

\* one command: the subcommand, its positional arguments, and whether it ran
Command(cmd, args, ran) == [cmd |-> cmd, args |-> args, ran |-> ran]

\* install fails before _exec when a git source meets more than one package
install_rejects(p, packages) ==
    Truthy(p.git) /\ ((Len(packages) > 0 /\ Len(packages) > 1) \/ Len(p.name) > 1)

\* cmd.extend(packages or self.names), then _exec(cmd)
install_command(p, packages) ==
    Command("install", IF Len(packages) > 0 THEN packages ELSE p.name,
            exec_runs(p.check_mode, FALSE))

\* uninstall that ignores its argument: cmd.extend(self.names)
uninstall_command_all_names(p, packages) ==
    Command("uninstall", p.name, exec_runs(p.check_mode, FALSE))

uninstall_command(p, packages) ==
    Command("uninstall", IF Len(packages) > 0 THEN packages ELSE p.name,
            exec_runs(p.check_mode, FALSE))

\* what `cargo install` may leave in the installation record for one target:
\* the requested version or whatever the source holds, the requested
\* features and source, and binaries whose stat may or may not have changed
InstalledEntries(p) ==
    { [version |-> v,
       kind |-> IF Truthy(p.git) THEN "git" ELSE IF Truthy(p.directory) THEN "path" ELSE "registry",
       url |-> IF Truthy(p.git)
               THEN Url(p.git.url.str,
                        {<<k, p.git[k].str>> : k \in {x \in {"tag", "branch"} : Truthy(p.git[x])}},
                        IF Truthy(p.git.rev) THEN p.git.rev.str ELSE Oid)
               ELSE IF Truthy(p.directory) THEN Url(p.directory.str, {}, "")
               ELSE Url("https://crates.io", {}, ""),
       no_default_features |-> ~p.default_features.bool,
       features |-> p.features.list,
       bin_stats |-> st] :
         v \in IF Truthy(p.version) THEN {p.version.str} ELSE Versions,
         st \in 0..MaxBinStat }

\* the installation records a successful `cargo install <packages>` may leave
install_effects(p, c, packages) ==
    { new @@ c : new \in [Range(packages) -> InstalledEntries(p)] }

\* the installation record after a successful `cargo uninstall <packages>`
uninstall_effect(c, packages) == [n \in DOMAIN c \ Range(packages) |-> c[n]]

-----------------------------------------------------------------------------
(* Cargo.get_latest and the three resolvers *)

\* what the queried tool answers: exit code and parsed standard output.
\*   search:    quoted = the text between the first and last double quote
\*   metadata:  packages = name -> version of manifest["packages"], or not JSON
\*   ls-remote: parts = out.strip().split("\t"), <<>> for empty output
SearchOutputs == { [rc |-> 1, quoted |-> ""], [rc |-> 0, quoted |-> ""] }
                 \cup { [rc |-> 0, quoted |-> v] : v \in Versions }
MetadataOutputs == { [json |-> FALSE, version |-> ""], [json |-> TRUE, version |-> ""] }
                   \cup { [json |-> TRUE, version |-> v] : v \in Versions }
LsRemoteOutputs == { [rc |-> 1, parts |-> <<>>], [rc |-> 0, parts |-> <<>>],
                     [rc |-> 0, parts |-> <<"def456", "ref">>],
                     [rc |-> 0, parts |-> <<"def456", "ref", "x">>] }

ToolOutputs(p) ==
    IF Truthy(p.directory) THEN MetadataOutputs
    ELSE IF Truthy(p.git) THEN LsRemoteOutputs
    ELSE SearchOutputs

Resolved(latest, log) == [status |-> "ok", latest |-> latest, log |-> log, msg |-> ""]
Failed(msg, log) == [status |-> "failed", latest |-> None, log |-> log, msg |-> msg]
Crashed(exception, log) == [status |-> "crashed", latest |-> None, log |-> log, msg |-> exception]

get_latest_published_version(p, package, out) ==
    LET log == <<Command("search", <<package.name.str>>, exec_runs(p.check_mode, TRUE))>>
    IN  IF out.rc # 0 THEN Failed("search failed", log)
        ELSE IF out.quoted = "" THEN Failed("No published version for package found", log)
        ELSE Resolved(DictOr(package, [version |-> Str(out.quoted)]), log)

get_source_directory_version(p, package, out) ==
    LET log == <<Command("metadata", <<p.directory.str>>, exec_runs(p.check_mode, TRUE))>>
    IN  IF ~out.json THEN Crashed("JSONDecodeError", log)
        ELSE IF out.version = "" THEN Failed("Package not defined in source", log)
        ELSE Resolved(DictOr(package, [version |-> Str(out.version), directory |-> p.directory]), log)

get_latest_git_oid(p, package, out) ==
    LET tags == DictGet(p.git, "tags", None)
        branch == DictGet(p.git, "branch", None)
        ref == IF Truthy(tags) THEN "refs/tags/" \o tags.str ELSE "refs/heads/" \o branch.str
        log == <<Command("ls-remote", <<ref>>, TRUE)>>
    IN  IF ~Truthy(tags) /\ ~Truthy(branch) THEN Crashed("UnboundLocalError", <<>>)
        ELSE IF out.rc # 0 THEN Failed("ls-remote failed", log)
        ELSE IF Len(out.parts) = 0 THEN Failed("remote does not have ref", log)
        ELSE IF Len(out.parts) # 2 THEN Failed("got unexpected output from git ls-remote", log)
        ELSE Resolved(
                DictOr(package,
                       [git |-> DictOr([k \in {x \in DOMAIN p.git : Truthy(p.git[x])} |-> p.git[k]],
                                       [rev |-> Str(out.parts[1])])]),
                log)

\* get_latest(package, cache=True); the caller stores the result in _latest
get_latest(p, package, cache, out) ==
    IF package.name.str \in DOMAIN cache THEN Resolved(cache[package.name.str], <<>>)
    ELSE IF Truthy(p.directory) THEN get_source_directory_version(p, package, out)
    ELSE IF Truthy(p.git) THEN
        IF Truthy(DictGet(p.git, "rev", None))
        THEN Resolved(DictOr(package, [rev |-> p.git.rev]), <<>>)
        ELSE get_latest_git_oid(p, package, out)
    ELSE get_latest_published_version(p, package, out)

-----------------------------------------------------------------------------
(* main: state == "present" *)

\* git_fields = set(git.keys()) if git else {}
git_fields(git) == IF Truthy(git) THEN DOMAIN git ELSE {}

\* the comprehension subscripts installed_packages[package_name] for every
\* name before its filter is evaluated: KeyError for a name not installed
git_installed_fields_raises(names, installed) ==
    \E n \in Range(names) : n \notin DOMAIN installed

git_installed_fields(names, installed, git) ==
    [n \in Range(names) |->
        LET meta == DictGet(installed[n], "git", EmptyDict)
        IN  [k \in {x \in DOMAIN meta : n \in DOMAIN installed /\ x \in git_fields(git)} |-> meta[k]]]

\* the comparison without the "features and" guard
needs_install_unguarded_features(p, installed, n) ==
    \/ n \notin DOMAIN installed
    \/ (Truthy(p.version) /\ p.version # installed[n]["version"])
    \/ (Truthy(p.git)
        /\ p.git # DictGet(git_installed_fields(p.name, installed, p.git), n, None))
    \/ p.features # installed[n]["features"]
    \/ (Truthy(p.default_features)
        /\ p.default_features # installed[n]["default_features"])
    \/ Truthy(p.argv)

\* the comparison without the version axis
needs_install_no_version(p, installed, n) ==
    \/ n \notin DOMAIN installed
    \/ (Truthy(p.git)
        /\ p.git # DictGet(git_installed_fields(p.name, installed, p.git), n, None))
    \/ (Truthy(p.features) /\ p.features # installed[n]["features"])
    \/ (Truthy(p.default_features)
        /\ p.default_features # installed[n]["default_features"])
    \/ Truthy(p.argv)

\* the condition of the to_install comprehension
needs_install(p, installed, n) ==
    \/ n \notin DOMAIN installed
    \/ (Truthy(p.version) /\ p.version # installed[n]["version"])
    \/ (Truthy(p.git)
        /\ p.git # DictGet(git_installed_fields(p.name, installed, p.git), n, None))
    \/ (Truthy(p.features) /\ p.features # installed[n]["features"])
    \/ (Truthy(p.default_features)
        /\ p.default_features # installed[n]["default_features"])
    \/ Truthy(p.argv)

to_install_list(p, installed) ==
    LET test(n) == needs_install(p, installed, n) IN SelectSeq(p.name, test)

\* package_params: the given ones of version, features, default_features, git
package_params(p) ==
    [f \in {x \in {"version", "features", "default_features", "git"} : Truthy(p[x])} |-> p[f]]

\* the state of main after one of its three branches
Outcome(next, msg, new, cache, log, c, targets) ==
    [pc |-> next, error |-> msg, new |-> new, cache |-> cache, log |-> log,
     crates |-> c, targets |-> targets]

\* the check-mode loop over to_install, from its i-th package on
RECURSIVE project_present(_, _, _, _, _, _)
project_present(p, installed, targets, i, acc, oracle) ==
    IF i > Len(targets) \/ acc.pc # "report" THEN acc
    ELSE LET n == targets[i] IN
         IF n \notin DOMAIN installed /\ ~Truthy(p.version) THEN
            LET r == get_latest(p, [name |-> Str(n)], acc.cache, oracle[n]) IN
            IF r.status = "ok"
            THEN project_present(p, installed, targets, i + 1,
                    [acc EXCEPT !.new = (n :> DictOr(package_params(p), r.latest)) @@ @,
                                !.cache = (n :> r.latest) @@ @,
                                !.log = @ \o r.log],
                    oracle)
            ELSE [acc EXCEPT !.pc = r.status, !.error = r.msg, !.log = @ \o r.log]
         ELSE IF DictGet(installed, n, None) = None THEN
            [acc EXCEPT !.pc = "crashed", !.error = "TypeError"]
         ELSE project_present(p, installed, targets, i + 1,
                    [acc EXCEPT !.new = (n :> DictOr(installed[n], package_params(p))) @@ @],
                    oracle)

\* lines 591-652
main_present_outcomes(p, c, installed, cache) ==
    IF git_installed_fields_raises(p.name, installed)
    THEN {Outcome("crashed", "KeyError", installed, cache, <<>>, c, <<>>)}
    ELSE
    LET targets == to_install_list(p, installed)
        log == <<install_command(p, targets)>>
    IN  IF Len(targets) = 0
        THEN {Outcome("report", "", installed, cache, <<>>, c, targets)}
        ELSE IF install_rejects(p, targets)
        THEN {Outcome("failed", "Cannot do multiple git installs at a time",
                      installed, cache, <<>>, c, targets)}
        ELSE IF p.check_mode
        THEN { project_present(p, installed, targets, 1,
                    Outcome("report", "", installed, cache, log, c, targets), oracle) :
                 oracle \in [Range(targets) -> ToolOutputs(p)] }
        ELSE {Outcome("failed", "cargo install failed", installed, cache, log, c, targets)}
             \cup { IF get_installed_fails(p.name, c2)
                    THEN Outcome("failed", "unexpected git package identifier",
                                 installed, cache, log, c2, targets)
                    ELSE Outcome("report", "", get_installed(p.name, c2), cache, log, c2, targets) :
                      c2 \in install_effects(p, c, targets) }

-----------------------------------------------------------------------------
(* main: state == "latest" and state == "absent" *)

\* the check-mode loop over names, from its i-th package on
RECURSIVE project_latest(_, _, _, _, _)
project_latest(p, installed, i, acc, oracle) ==
    IF i > Len(p.name) \/ acc.pc # "report" THEN acc
    ELSE LET n == p.name[i]
             current == DictGet(installed, n, None)
             r == get_latest(p, IF Truthy(current) THEN current ELSE [name |-> Str(n)],
                             acc.cache, oracle[n])
         IN  IF r.status = "ok"
             THEN project_latest(p, installed, i + 1,
                    [acc EXCEPT !.new = (n :> r.latest) @@ @,
                                !.cache = (n :> r.latest) @@ @,
                                !.log = @ \o r.log],
                    oracle)
             ELSE [acc EXCEPT !.pc = r.status, !.error = r.msg, !.log = @ \o r.log]

\* lines 654-662
main_latest_outcomes(p, c, installed, cache) ==
    LET log == <<install_command(p, p.name)>>
    IN  IF p.check_mode
        THEN { project_latest(p, installed, 1,
                    Outcome("report", "", installed, cache, <<>>, c, <<>>), oracle) :
                 oracle \in [Range(p.name) -> ToolOutputs(p)] }
        ELSE IF install_rejects(p, p.name)
        THEN {Outcome("failed", "Cannot do multiple git installs at a time",
                      installed, cache, <<>>, c, <<>>)}
        ELSE {Outcome("failed", "cargo install failed", installed, cache, log, c, <<>>)}
             \cup { IF get_installed_fails(p.name, c2)
                    THEN Outcome("failed", "unexpected git package identifier",
                                 installed, cache, log, c2, <<>>)
                    ELSE Outcome("report", "", get_installed(p.name, c2), cache, log, c2, <<>>) :
                      c2 \in install_effects(p, c, p.name) }

to_uninstall_list(p, installed) ==
    LET test(n) == n \in DOMAIN installed IN SelectSeq(p.name, test)

\* lines 663-676
main_absent_outcomes(p, c, installed, cache) ==
    LET targets == to_uninstall_list(p, installed)
        log == <<uninstall_command(p, targets)>>
        c2 == uninstall_effect(c, targets)
    IN  IF Len(targets) = 0
        THEN {Outcome("report", "", installed, cache, <<>>, c, targets)}
        ELSE IF p.check_mode
        THEN {Outcome("report", "",
                      [n \in DOMAIN installed \ Range(targets) |-> installed[n]],
                      cache, log, c, targets)}
        ELSE {Outcome("failed", "cargo uninstall failed", installed, cache, log, c, targets),
              IF get_installed_fails(p.name, c2)
              THEN Outcome("failed", "unexpected git package identifier",
                           installed, cache, log, c2, targets)
              ELSE Outcome("report", "", get_installed(p.name, c2), cache, log, c2, targets)}

-----------------------------------------------------------------------------
(* _diff_installed_packages and the report *)

Orderings(S) == {q \in [1..Cardinality(S) -> S] : Range(q) = S}

\* sym_diff built from the packages of `before` alone
sym_diff_before_only(before, after) ==
    LET union == Range([n \in DOMAIN before |-> before[n]])
        differs(name) ==
            LET before_pkg == DictGet(before, name, None)
                after_pkg == DictGet(after, name, None)
            IN  ~(Truthy(before_pkg) /\ Truthy(after_pkg) /\ before_pkg = after_pkg)
    IN  UNION { (IF Truthy(DictGet(before, package.name.str, None))
                 THEN {before[package.name.str].name.str} ELSE {})
                \cup
                (IF Truthy(DictGet(after, package.name.str, None))
                 THEN {after[package.name.str].name.str} ELSE {}) :
                  package \in {pk \in union : differs(pk.name.str)} }

\* the names collected in sym_diff
sym_diff(before, after) ==
    LET union == Range([n \in DOMAIN before |-> before[n]]) \cup Range([n \in DOMAIN after |-> after[n]])
        differs(name) ==
            LET before_pkg == DictGet(before, name, None)
                after_pkg == DictGet(after, name, None)
            IN  ~(Truthy(before_pkg) /\ Truthy(after_pkg) /\ before_pkg = after_pkg)
    IN  UNION { (IF Truthy(DictGet(before, package.name.str, None))
                 THEN {before[package.name.str].name.str} ELSE {})
                \cup
                (IF Truthy(DictGet(after, package.name.str, None))
                 THEN {after[package.name.str].name.str} ELSE {}) :
                  package \in {pk \in union : differs(pk.name.str)} }

DiffEntry(before, after, name) ==
    [before |-> DictGet(before, name, None), after |-> DictGet(after, name, None)]

\* the lists the function may return: sym_diff is a set of strings, iterated
\* in an order that depends on the hash seed
_diff_installed_packages(before, after) ==
    { [i \in DOMAIN order |-> DiffEntry(before, after, order[i])] :
        order \in Orderings(sym_diff(before, after)) }

\* changed = bool(diff) or argv
changed_value_any_state(p, d) ==
    IF Len(d) > 0 THEN Bool(TRUE) ELSE p.argv

\* changed = bool(diff) or (state != "absent" and argv)
changed_value(p, d) ==
    IF Len(d) > 0 THEN Bool(TRUE)
    ELSE IF p.state # "absent" THEN p.argv
    ELSE Bool(FALSE)

\* diff_obj["before"].pop / diff_obj["after"].pop on None: AttributeError
strip_raises(d) == \E i \in DOMAIN d : d[i].before = None \/ d[i].after = None

\* the diff after bin_stats was popped from both records of every entry
strip_bin_stats(d) ==
    [i \in DOMAIN d |-> [before |-> DictPop(d[i].before, "bin_stats"),
                         after |-> DictPop(d[i].after, "bin_stats")]]

\* the records of the diff are the records of the inventory: the pop shows
\* in the inventory too
strip_inventory(inventory, d, side) ==
    [n \in DOMAIN inventory |->
        IF \E i \in DOMAIN d : d[i][side] # None /\ d[i][side].name.str = n
        THEN DictPop(inventory[n], "bin_stats") ELSE inventory[n]]

-----------------------------------------------------------------------------
(* main *)

Init ==
    /\ pc = "read"
    /\ params \in ModuleParams
    /\ crates \in CratesFiles
    /\ installed_packages = EmptyDict
    /\ new_installed_packages = EmptyDict
    /\ to_install = <<>>
    /\ latest_cache = EmptyDict
    /\ exec_log = <<>>
    /\ diff = <<>>
    /\ result = None
    /\ error = ""

\* module.fail_json(msg) and an uncaught exception both end the invocation
Fail(msg) == pc' = "failed" /\ error' = msg
Crash(exception) == pc' = "crashed" /\ error' = exception

\* main, up to the dispatch on state: read the inventory, return it when no
\* package is named, validate bin and directory
main_get_installed ==
    /\ pc = "read"
    /\ \E bin \in {None, Str("x")}, isdir \in BOOLEAN :
        LET installed == get_installed(params.name, crates) IN
        IF get_installed_fails(params.name, crates) THEN
            /\ Fail("unexpected git package identifier")
            /\ UNCHANGED <<installed_packages, new_installed_packages, result>>
        ELSE IF Len(params.name) = 0 THEN
            /\ pc' = "done"
            /\ installed_packages' = installed
            /\ result' = [changed |-> Bool(FALSE), installed |-> installed]
            /\ UNCHANGED <<new_installed_packages, error>>
        ELSE IF Truthy(bin) /\ Len(params.name) > 1 THEN
            /\ Fail("Cannot install multiple crates with 'bin'")
            /\ installed_packages' = installed
            /\ UNCHANGED <<new_installed_packages, result>>
        ELSE IF params.directory # None /\ ~isdir THEN
            /\ Fail("Source directory does not exist")
            /\ installed_packages' = installed
            /\ UNCHANGED <<new_installed_packages, result>>
        ELSE
            /\ pc' = "dispatch"
            /\ installed_packages' = installed
            /\ new_installed_packages' = installed
            /\ UNCHANGED <<result, error>>
    /\ UNCHANGED <<params, crates, to_install, latest_cache, exec_log, diff>>

\* one of the three branches has run
Branch(o) ==
    /\ pc' = o.pc
    /\ error' = o.error
    /\ new_installed_packages' = o.new
    /\ latest_cache' = o.cache
    /\ exec_log' = exec_log \o o.log
    /\ crates' = o.crates
    /\ to_install' = o.targets
    /\ UNCHANGED <<params, installed_packages, diff, result>>

main_present ==
    /\ pc = "dispatch"
    /\ params.state = "present"
    /\ \E o \in main_present_outcomes(params, crates, installed_packages, latest_cache) : Branch(o)

main_latest ==
    /\ pc = "dispatch"
    /\ params.state = "latest"
    /\ \E o \in main_latest_outcomes(params, crates, installed_packages, latest_cache) : Branch(o)

main_absent ==
    /\ pc = "dispatch"
    /\ params.state = "absent"
    /\ \E o \in main_absent_outcomes(params, crates, installed_packages, latest_cache) : Branch(o)

\* lines 681-707: diff, changed, warnings, the stripped diff, exit_json
main_report ==
    /\ pc = "report"
    /\ \E d \in _diff_installed_packages(installed_packages, new_installed_packages) :
        LET base == [changed |-> changed_value(params, d)]
            warned == IF Truthy(params.argv)
                      THEN [warnings |-> List(<<Str("changes are always assumed when using argv")>>)]
                      ELSE EmptyDict
        IN  /\ diff' = d
            /\ IF params.diff_mode /\ strip_raises(d) THEN
                    /\ Crash("AttributeError")
                    /\ UNCHANGED <<installed_packages, new_installed_packages, result>>
               ELSE IF params.diff_mode THEN
                    /\ pc' = "done"
                    /\ installed_packages' = strip_inventory(installed_packages, d, "before")
                    /\ new_installed_packages' = strip_inventory(new_installed_packages, d, "after")
                    /\ result' = DictOr(DictOr(base, warned),
                                        [installed |-> new_installed_packages',
                                         diff |-> List(strip_bin_stats(d))])
                    /\ UNCHANGED error
               ELSE
                    /\ pc' = "done"
                    /\ result' = DictOr(DictOr(base, warned),
                                        [installed |-> new_installed_packages])
                    /\ UNCHANGED <<installed_packages, new_installed_packages, error>>
    /\ UNCHANGED <<params, crates, to_install, latest_cache, exec_log>>

Next ==
    \/ main_get_installed
    \/ main_present
    \/ main_latest
    \/ main_absent
    \/ main_report

Spec == Init /\ [][Next]_vars

-----------------------------------------------------------------------------
(* Properties *)

Named == Range(params.name)

\* the named packages the first read found installed
NamedInstalled == Named \cap DOMAIN installed_packages

\* the branch on state has computed its target list
Compared == pc \in {"report", "done"}
            \/ (pc = "failed" /\ error \in {"cargo install failed", "cargo uninstall failed"})

InstallCommands == {i \in DOMAIN exec_log : exec_log[i].cmd = "install"}
UninstallCommands == {i \in DOMAIN exec_log : exec_log[i].cmd = "uninstall"}

\* the entries of a diff list that are about package n
EntriesOf(d, n) ==
    {i \in DOMAIN d : \/ (d[i].before # None /\ d[i].before.name = Str(n))
                      \/ (d[i].after # None /\ d[i].after.name = Str(n))}

\* C1: with state=present, every named package that is absent from the
\* inventory is placed in to_install: the comparison completes without an
\* error and install is invoked with a target list that contains the package.
C1_AbsentPackageIsInstalled ==
    (params.state = "present" /\ pc \in {"report", "done", "crashed"})
        => \A n \in Named \ DOMAIN installed_packages :
              /\ pc # "crashed"
              /\ n \in Range(to_install)
              /\ \E i \in InstallCommands : n \in Range(exec_log[i].args)

NoAxisGiven ==
    /\ params.state = "present"
    /\ ~Truthy(params.version)
    /\ ~Truthy(params.git)
    /\ ~Truthy(params.features)
    /\ ~Truthy(params.argv)

\* C2 as claimed: with state=present and no version, git, features or argv,
\* every installed named package is satisfied, whatever its record, and the
\* invocation ends with an empty diff and changed not true.
C2_EveryInstalledRecordIsSatisfied ==
    (NoAxisGiven /\ Compared)
        => /\ \A n \in NamedInstalled : n \notin Range(to_install)
           /\ (pc = "done" /\ Named = NamedInstalled)
                 => (diff = <<>> /\ ~Truthy(result.changed))

DefaultFeaturesMatch(n) ==
    installed_packages[n]["default_features"] = params.default_features

\* C2, amended: with state=present and no version, git, features or argv, a
\* named package installed with the requested default-features flag is never
\* a target of install; when every named package is installed that way the
\* invocation ends with an empty diff and changed not true.
C2_PresentIsIdempotent ==
    NoAxisGiven
        => /\ \A n \in NamedInstalled :
                DefaultFeaturesMatch(n)
                    => /\ n \notin Range(to_install)
                       /\ \A i \in InstallCommands : n \notin Range(exec_log[i].args)
           /\ (/\ pc = "done"
               /\ Named = NamedInstalled
               /\ \A n \in NamedInstalled : DefaultFeaturesMatch(n))
                 => (diff = <<>> /\ ~Truthy(result.changed) /\ exec_log = <<>>)

C2_Witness ==
    /\ NoAxisGiven
    /\ pc = "done"
    /\ Len(params.name) > 0
    /\ Named = NamedInstalled
    /\ \A n \in NamedInstalled : DefaultFeaturesMatch(n)
    /\ \E n \in NamedInstalled : installed_packages[n]["features"] # params.features
    /\ result.changed = None

VersionMismatch(n) ==
    /\ params.state = "present"
    /\ Truthy(params.version)
    /\ n \in NamedInstalled
    /\ installed_packages[n]["version"] # params.version

\* C3: with state=present, a named package installed in a version other than
\* the requested one is a target of install; once the install reports the
\* requested version (or check mode projects it) the diff holds exactly one
\* entry for the package, from the installed to the requested version.
C3_VersionMismatchTriggersInstall ==
    \A n \in Names :
        VersionMismatch(n)
            => /\ Compared => n \in Range(to_install)
               /\ (/\ pc = "done"
                   /\ \/ params.check_mode
                      \/ /\ n \in DOMAIN new_installed_packages
                         /\ new_installed_packages[n]["version"] = params.version)
                     => /\ Cardinality(EntriesOf(diff, n)) = 1
                        /\ \A i \in EntriesOf(diff, n) :
                              /\ diff[i].before # None
                              /\ diff[i].after # None
                              /\ diff[i].before["version"] = installed_packages[n]["version"]
                              /\ diff[i].after["version"] = params.version

C3_Witness ==
    /\ pc = "done"
    /\ \E n \in Names :
          /\ VersionMismatch(n)
          /\ installed_packages[n]["version"] = Str("1.0.0")
          /\ params.version = Str("2.0.0")
          /\ Cardinality(EntriesOf(diff, n)) = 1
          /\ ~params.check_mode
          /\ new_installed_packages[n]["version"] = Str("2.0.0")

\* C4: with state=absent, uninstall is invoked once, with exactly the named
\* packages that are installed, and never with a package that is not
\* installed; when no named package is installed nothing is uninstalled and
\* the diff is empty.
C4_UninstallsExactlyInstalled ==
    params.state = "absent"
        => /\ \A i \in UninstallCommands :
                /\ Range(exec_log[i].args) = NamedInstalled
                /\ exec_log[i].args = to_install
                /\ exec_log[i].ran = ~params.check_mode
           /\ InstallCommands = {}
           /\ Compared
                => /\ NamedInstalled # {} => Cardinality(UninstallCommands) = 1
                   /\ NamedInstalled = {} => exec_log = <<>>
           /\ (pc = "done" /\ NamedInstalled = {}) => diff = <<>>

C4_Witness ==
    /\ params.state = "absent"
    /\ pc = "done"
    /\ Cardinality(Named) = 2
    /\ Cardinality(NamedInstalled) = 1
    /\ Len(exec_log) = 1
    /\ exec_log[1].cmd = "uninstall"
    /\ exec_log[1].ran
    /\ Range(exec_log[1].args) = NamedInstalled
    /\ Cardinality(EntriesOf(diff, CHOOSE n \in NamedInstalled : TRUE)) = 1

WarningCount == IF "warnings" \in DOMAIN result THEN Len(result.warnings.list) ELSE 0

\* C5 as claimed: every invocation with a non-empty argv ends with changed
\* true and exactly one warning, whatever the state and the diff.
C5_ArgvAlwaysChanged ==
    (pc = "done" /\ Truthy(params.argv))
        => (Truthy(result.changed) /\ WarningCount = 1)

\* C5, amended: every invocation that names a package, has a non-empty argv
\* and returns a result returns exactly one warning; changed is true when the
\* state is present or latest, and for state=absent exactly when the diff is
\* not empty.
C5_ArgvForcesChange ==
    (pc = "done" /\ Truthy(params.argv) /\ Len(params.name) > 0)
        => /\ WarningCount = 1
           /\ params.state # "absent" => Truthy(result.changed)
           /\ params.state = "absent" => (Truthy(result.changed) <=> Len(diff) > 0)

C5_Witness ==
    /\ pc = "done"
    /\ Truthy(params.argv)
    /\ Len(params.name) > 0
    /\ params.state = "absent"
    /\ diff = <<>>
    /\ result.changed = Bool(FALSE)
    /\ WarningCount = 1

ReadOnlyQueries == {"search", "metadata", "ls-remote"}

\* C6: in check mode no install or uninstall command reaches the process
\* executor; the commands that run are the registry search, the manifest
\* metadata query and the remote reference listing.
C6_CheckModeRunsOnlyQueries ==
    params.check_mode
        => \A i \in DOMAIN exec_log :
              exec_log[i].ran => exec_log[i].cmd \in ReadOnlyQueries

C6_Witness ==
    /\ params.check_mode
    /\ pc = "done"
    /\ \E i \in InstallCommands : ~exec_log[i].ran
    /\ new_installed_packages # installed_packages

ValidationErrors ==
    {"Cannot install multiple crates with 'bin'", "Source directory does not exist",
     "unexpected git package identifier"}

\* C7: an invocation that names more than one package together with a git
\* source fails with "Cannot do multiple git installs at a time" and no
\* subprocess is executed before it does, in normal and in check mode.
\* Stated for the invocations that ask for an install (state present or
\* latest); a failed validation of bin or directory is not counted.
C7_MultipleGitInstallRejected ==
    (Cardinality(Named) > 1 /\ Truthy(params.git) /\ params.state # "absent")
        => /\ \A i \in DOMAIN exec_log : ~exec_log[i].ran
           /\ pc # "done"
           /\ (pc = "failed" /\ error \notin ValidationErrors)
                 => error = "Cannot do multiple git installs at a time"

\* the installed record agrees with the git parameter on every key the
\* caller gave a value
GitAgrees(git, package) ==
    /\ "git" \in DOMAIN package
    /\ \A k \in DOMAIN git :
          Truthy(git[k])
              => IF k = "url" THEN package["url"].base = git[k].str
                 ELSE /\ k \in DOMAIN package["git"]
                      /\ package["git"][k] \in {git[k], List(<<git[k]>>)}

\* C8: with state=present and git given (no argv, the other axes matching), a
\* package whose installed git metadata agrees with the git parameter on
\* every key the caller gave is satisfied and not reinstalled, even when the
\* installed record carries a rev the caller did not give.
C8_GitComparedOnGivenKeys ==
    (params.state = "present" /\ Truthy(params.git) /\ ~Truthy(params.argv) /\ Compared)
        => \A n \in NamedInstalled :
              (/\ GitAgrees(params.git, installed_packages[n])
               /\ Truthy(params.features)
                     => params.features = installed_packages[n]["features"]
               /\ DefaultFeaturesMatch(n))
                 => n \notin Range(to_install)

\* C9: with state=present, an installed named package is a target of install
\* whenever the requested default-features flag differs from the installed
\* one, in both directions.
C9_DefaultFeaturesBothDirections ==
    (params.state = "present" /\ Compared)
        => \A n \in NamedInstalled :
              ~DefaultFeaturesMatch(n) => n \in Range(to_install)

\* the two records are equal but for bin_stats
DifferOnlyInBinStats(before_pkg, after_pkg) ==
    /\ before_pkg # after_pkg
    /\ DictPop(before_pkg, "bin_stats") = DictPop(after_pkg, "bin_stats")

\* C10: a package whose two records differ only in bin_stats still gets a
\* diff entry, and in diff mode the report is produced without an error and
\* no reported entry carries bin_stats in its before or after record.
C10_BinStatsExcluded ==
    /\ pc = "report"
          => \A d \in _diff_installed_packages(installed_packages, new_installed_packages) :
                \A n \in DOMAIN installed_packages \cap DOMAIN new_installed_packages :
                    DifferOnlyInBinStats(installed_packages[n], new_installed_packages[n])
                        => Cardinality(EntriesOf(d, n)) = 1
    /\ params.diff_mode
          => /\ error # "AttributeError"
             /\ pc = "done" /\ Len(params.name) > 0
                   => \A i \in DOMAIN result.diff.list :
                         /\ "bin_stats" \notin DOMAIN result.diff.list[i].before
                         /\ "bin_stats" \notin DOMAIN result.diff.list[i].after

\* C11: producing the report leaves both inventories as they were: the step
\* that strips bin_stats from the reported diff entries changes no record of
\* installed_packages or new_installed_packages, and the inventory it
\* returns as "installed" is new_installed_packages as it was before.
C11_ReportLeavesInventories ==
    [][pc = "report"
          => /\ installed_packages' = installed_packages
             /\ new_installed_packages' = new_installed_packages
             /\ pc' = "done" => result'["installed"] = new_installed_packages]_vars

\* the names whose records differ, or that only one inventory holds
DifferingNames(before, after) ==
    {n \in DOMAIN before \cup DOMAIN after :
        \/ n \notin DOMAIN before
        \/ n \notin DOMAIN after
        \/ before[n] # after[n]}

\* d holds one entry for every differing name, none for the others, and
\* every entry carries the two records of its name, None for a missing one
IsDiffOf(before, after, d) ==
    /\ Len(d) = Cardinality(DifferingNames(before, after))
    /\ \A n \in DOMAIN before \cup DOMAIN after :
          /\ Cardinality(EntriesOf(d, n))
                = IF n \in DifferingNames(before, after) THEN 1 ELSE 0
          /\ \A i \in EntriesOf(d, n) :
                /\ d[i].before = IF n \in DOMAIN before THEN before[n] ELSE None
                /\ d[i].after = IF n \in DOMAIN after THEN after[n] ELSE None

\* C12: for the two inventories of an invocation and every package name in
\* either, the diff holds exactly one entry for the name when its two records
\* differ by full equality or only one inventory holds it, and none when the
\* records are equal; a name only in before has after = None and a name only
\* in after has before = None.
C12_DiffIsSymmetricDifference ==
    [][pc = "report" => IsDiffOf(installed_packages, new_installed_packages, diff')]_vars

C12_Witness ==
    /\ pc = "done"
    /\ ~params.diff_mode
    /\ IsDiffOf(installed_packages, new_installed_packages, diff)
    /\ \E n \in DOMAIN installed_packages \cap DOMAIN new_installed_packages :
          /\ installed_packages[n] = new_installed_packages[n]
          /\ EntriesOf(diff, n) = {}
    /\ \E n \in DOMAIN new_installed_packages \ DOMAIN installed_packages :
          \E i \in DOMAIN diff :
              diff[i] = [before |-> None, after |-> new_installed_packages[n]]

\* the resolver is asked for a git source without an exact rev
ResolvesGitRef ==
    /\ params.check_mode
    /\ params.state = "latest"
    /\ Truthy(params.git)
    /\ ~Truthy(params.git["rev"])

\* the reference the remote is to be asked for
RequestedRef ==
    IF Truthy(params.git["tag"]) THEN "refs/tags/" \o params.git["tag"].str
    ELSE "refs/heads/" \o params.git["branch"].str

\* C13: for a git source without an exact rev the remote is queried for the
\* reference of the given tag, or of the given branch; the projected record's
\* git.rev is the commit id the remote returned, and the resolution fails with
\* "remote does not have ref" or "got unexpected output" (or the failed
\* query) and in no other way.
C13_GitRefResolved ==
    ResolvesGitRef
        => /\ error # "UnboundLocalError"
           /\ \A i \in DOMAIN exec_log :
                 exec_log[i].cmd = "ls-remote" => exec_log[i].args = <<RequestedRef>>
           /\ pc \in {"report", "done"}
                 => \A n \in Named :
                       /\ \E i \in DOMAIN exec_log : exec_log[i].cmd = "ls-remote"
                       /\ new_installed_packages[n]["git"]["rev"] = Str("def456")
           /\ (pc = "failed" /\ error \notin ValidationErrors)
                 => error \in {"remote does not have ref",
                               "got unexpected output from git ls-remote",
                               "ls-remote failed"}

====
